---- MODULE Spec2Model ----
(***************************************************************************)
(* Portfolio accounting engine of the Stock Portfolio Tracker:             *)
(* utils/portfolio.py (calculate_holdings_fifo, calculate_portfolio_value, *)
(* calculate_portfolio_metrics, calculate_xirr).                           *)
(*                                                                         *)
(* One run of the model is one rendering of the "Portfolio Performance"    *)
(* tab (components/portfolio_performance.py): the session ledger is folded *)
(* into holdings, the holdings are valued against a price map, and the     *)
(* metrics are computed from the ledger and the valued holdings.           *)
(***************************************************************************)
EXTENDS Integers, Sequences, FiniteSets, TLC

\* ---------------------------------------------------------------- bounds
MaxLen == 3

\* rows the session ledger is followed up to
MaxRows == 3

\* rows of one uploaded file
MaxBatch == 2

\* Ticker "A" takes every combination of date, type, quantity and price;
\* ticker "B" is a second instrument traded one share at a time at one buy
\* price, interleaved with "A" in every possible way.
Tickers == {"A", "B"}
Dates == {1, 2}
Quantities == {1, 2}
BuyPrices == {100, 200}
SellPrices == {150}
CurrentPrices == {150}
Nows == {2, 3}

\* ------------------------------------------------------------ data model
\* A row of the transactions DataFrame (validated: quantity, price > 0).
Transaction ==
    [ticker : {"A"}, date : Dates, transaction_type : {"BUY"},
     quantity : Quantities, price : BuyPrices]
    \cup
    [ticker : {"A"}, date : Dates, transaction_type : {"SELL"},
     quantity : Quantities, price : SellPrices]
    \cup
    [ticker : {"B"}, date : Dates, transaction_type : {"BUY"},
     quantity : {1}, price : {100}]
    \cup
    [ticker : {"B"}, date : Dates, transaction_type : {"SELL"},
     quantity : {1}, price : SellPrices]

VARIABLES
    pc,                  \* position in the rendering pass
    transactions_df,     \* the ledger handed to the engine (rows by label)
    df,                  \* calculate_holdings_fifo: row labels in sorted order
    pos,                 \* calculate_holdings_fifo: rows of df processed so far
    lotKeys,             \* keys of the dict lots, in insertion order
    lots,                \* ticker -> queue of <<quantity, price>>
    lotBorn,             \* history: ticker -> position in df of each lot's BUY
    remaining_quantity,  \* SELL loop: quantity still to match
    pops,                \* history: calls of lots[ticker].pop(0) so far
    holdings,            \* calculate_holdings_fifo: the holdings rows
    prices_dict,         \* the price map fetched for this pass
    holdings_with_value, \* calculate_portfolio_value: the valued rows
    metrics,             \* calculate_portfolio_metrics: the metrics dict
    cash_flows,          \* calculate_xirr: signed amounts
    dates,               \* calculate_xirr: date of each cash flow
    xirr,                \* calculate_xirr: "unset", "None" or "value" once returned
    xirr_value,          \* calculate_xirr: the percentage returned, if any
    date_type,           \* type of the ledger's date values
    days,                \* calculate_xirr: days since the first date
    stages,              \* history: solver calls made and their outcomes
    transactions,        \* st.session_state.transactions
    last_op,             \* history: the last ledger-changing operation
    last_batch           \* history: the batch of the last CSV add

fifoVars == <<df, pos, lotKeys, lots, lotBorn, remaining_quantity, pops>>
valueVars == <<prices_dict, holdings_with_value>>
xirrVars == <<cash_flows, dates, xirr>>
solverVars == <<xirr_value, date_type, days, stages>>
sessionVars == <<transactions, last_op, last_batch>>

vars == <<pc, transactions_df, df, pos, lotKeys, lots, lotBorn,
          remaining_quantity, pops, holdings, prices_dict,
          holdings_with_value,
          metrics, cash_flows, dates, xirr, xirr_value, date_type, days,
          stages, transactions, last_op, last_batch>>

\* --------------------------------------------------------------- helpers
Range(s) == {s[k] : k \in DOMAIN s}

RECURSIVE SumSeq(_)
SumSeq(s) == IF s = <<>> THEN 0 ELSE Head(s) + SumSeq(Tail(s))

Abs(n) == IF n < 0 THEN -n ELSE n

RECURSIVE GCD(_, _)
GCD(a, b) == IF b = 0 THEN a ELSE GCD(b, a % b)

\* Float values are modelled as exact fractions in lowest terms with a
\* positive denominator; NaN (pandas' missing value) has denominator 0.
NaN == [num |-> 0, den |-> 0]
IsNaN(x) == x.den = 0

Frac(n, d) ==
    IF d = 0 THEN NaN
    ELSE LET g == GCD(Abs(n), Abs(d))
             sgn == IF d < 0 THEN -1 ELSE 1
         IN [num |-> (sgn * n) \div g, den |-> (sgn * d) \div g]

R(n) == Frac(n, 1)

FAdd(x, y) ==
    IF IsNaN(x) \/ IsNaN(y) THEN NaN
    ELSE Frac(x.num * y.den + y.num * x.den, x.den * y.den)
FSub(x, y) ==
    IF IsNaN(x) \/ IsNaN(y) THEN NaN
    ELSE Frac(x.num * y.den - y.num * x.den, x.den * y.den)
FMul(x, y) ==
    IF IsNaN(x) \/ IsNaN(y) THEN NaN
    ELSE Frac(x.num * y.num, x.den * y.den)
FDiv(x, y) ==
    IF IsNaN(x) \/ IsNaN(y) THEN NaN
    ELSE Frac(x.num * y.den, x.den * y.num)
FPositive(x) == ~IsNaN(x) /\ x.num > 0

\* metrics = {'total_investment': 0, ..., 'xirr': None}   (lines 150-157)
MetricsDefaults ==
    [total_investment |-> R(0), total_sells |-> R(0), current_value |-> R(0),
     total_return |-> R(0), total_return_percent |-> R(0)]

Injective(s) == \A a, b \in DOMAIN s : s[a] = s[b] => a = b

\* DataFrame.sort_values('date') with the default kind ('quicksort'): the
\* result is some ordering of the rows by ascending date; the relative order
\* of rows with equal dates is not specified.
SortValuesByDate(rows) ==
    {p \in [1..Len(rows) -> 1..Len(rows)] :
        /\ Injective(p)
        /\ \A a, b \in 1..Len(rows) :
              a < b => rows[p[a]].date <= rows[p[b]].date}

Row(k) == transactions_df[df[k]]

\* st.session_state.transactions = None
NoLedger == [none |-> TRUE, rows |-> <<>>]

\* a ledger frame held by the session
Ledger(rows) == [none |-> FALSE, rows |-> rows]

\* the solver part of calculate_xirr has not run
SolverIdle ==
    /\ xirr_value = NaN
    /\ days = <<>>
    /\ stages = <<>>

\* no ledger-changing operation is in the picture
SessionIdle ==
    /\ transactions = NoLedger
    /\ last_op = "none"
    /\ last_batch = <<>>

\* ------------------------------------------------------------------ Init
Init ==
    /\ \E n \in 0..MaxLen : transactions_df \in [1..n -> Transaction]
    /\ pc = "start"
    /\ df = <<>>
    /\ pos = 0
    /\ lotKeys = <<>>
    /\ lots = [t \in Tickers |-> <<>>]
    /\ lotBorn = [t \in Tickers |-> <<>>]
    /\ remaining_quantity = 0
    /\ pops = 0
    /\ holdings = <<>>
    /\ prices_dict = <<>>
    /\ holdings_with_value = <<>>
    /\ metrics = MetricsDefaults
    /\ cash_flows = <<>>
    /\ dates = <<>>
    /\ xirr = "unset"
    /\ date_type = "Timestamp"
    /\ SolverIdle
    /\ SessionIdle

\* ------------------------------------------- calculate_holdings_fifo
\* lines 50-51: an empty ledger returns an empty DataFrame at once.
HoldingsEmptyLedger ==
    /\ pc = "start"
    /\ Len(transactions_df) = 0
    /\ pc' = "holdings_done"
    /\ UNCHANGED <<transactions_df, fifoVars, holdings, valueVars, metrics,
                   xirrVars>>
    /\ UNCHANGED <<solverVars, sessionVars>>

\* Faulty variant: transactions_df.sort_values('date', inplace=True), the
\* caller's frame takes the sorted order
LedgerSortedInPlace(rows, order) == [k \in DOMAIN rows |-> rows[order[k]]]

\* lines 54, 57: df = transactions_df.copy(); df = df.sort_values('date')
\* builds new frames, the caller's frame keeps its rows in their order
LedgerAfterSort(rows, order) == rows

\* lines 54-61: copy, sort by date, start with no lots.
HoldingsSort ==
    /\ pc = "start"
    /\ Len(transactions_df) > 0
    /\ df' \in SortValuesByDate(transactions_df)
    /\ transactions_df' = LedgerAfterSort(transactions_df, df')
    /\ pc' = "row"
    /\ UNCHANGED <<pos, lotKeys, lots, lotBorn,
                   remaining_quantity, pops, holdings, valueVars, metrics,
                   xirrVars>>
    /\ UNCHANGED <<solverVars, sessionVars>>

\* lots[ticker].append((quantity, price))
AppendLot(q, lot) == Append(q, lot)

\* Faulty variant: the front lot is read but not removed (lots[ticker][1:])
PopLotNotRemoved(q) == q

\* Faulty variant: lots[ticker].pop() takes the newest lot
PopLotNewest(q) == SubSeq(q, 1, Len(q) - 1)

\* lots[ticker].pop(0)
PopLot(q) == Tail(q)

\* Faulty variant: the reduced lot is not written back
ReduceLotKept(lot, rem) == <<lot[1], lot[2]>>

\* lots[ticker][0] = (lot_quantity - remaining_quantity, lot_price)
ReduceLot(lot, rem) == <<lot[1] - rem, lot[2]>>

\* lines 70-71: if ticker not in lots: lots[ticker] = []
TouchKey(keys, t) == IF t \in Range(keys) THEN keys ELSE Append(keys, t)

\* lines 64-75: next row is a BUY.
ProcessBuy ==
    /\ pc = "row"
    /\ pos < Len(df)
    /\ LET r == Row(pos + 1) IN
        /\ r.transaction_type = "BUY"
        /\ lotKeys' = TouchKey(lotKeys, r.ticker)
        /\ lots' = [lots EXCEPT ![r.ticker] =
                        AppendLot(@, <<r.quantity, r.price>>)]
        /\ lotBorn' = [lotBorn EXCEPT ![r.ticker] = AppendLot(@, pos + 1)]
    /\ pos' = pos + 1
    /\ UNCHANGED <<pc, transactions_df, df, remaining_quantity, pops,
                   holdings, valueVars, metrics, xirrVars>>
    /\ UNCHANGED <<solverVars, sessionVars>>

\* lines 64-78: next row is a SELL; remaining_quantity = quantity.
BeginSell ==
    /\ pc = "row"
    /\ pos < Len(df)
    /\ LET r == Row(pos + 1) IN
        /\ r.transaction_type = "SELL"
        /\ lotKeys' = TouchKey(lotKeys, r.ticker)
        /\ remaining_quantity' = r.quantity
    /\ pc' = "sell"
    /\ UNCHANGED <<transactions_df, df, pos, lots, lotBorn, pops, holdings,
                   valueVars, metrics, xirrVars>>
    /\ UNCHANGED <<solverVars, sessionVars>>

\* Faulty variant: the queue is not tested
LoopConditionNoQueueTest(rem, queue) == rem > 0

\* line 81: while remaining_quantity > 0 and lots[ticker]
LoopCondition(rem, queue) == rem > 0 /\ queue # <<>>

\* Faulty variant: < for <=
LotExhaustedStrict(lot_quantity, rem) == lot_quantity < rem

\* line 84: if lot_quantity <= remaining_quantity
LotExhausted(lot_quantity, rem) == lot_quantity <= rem

\* lines 81-87: the front lot is no larger than what remains: remove it.
\* (line 82 reads lots[ticker][0]: on an empty list that is an IndexError.)
SellPopLot ==
    /\ pc = "sell"
    /\ LET t == Row(pos + 1).ticker IN
        /\ LoopCondition(remaining_quantity, lots[t])
        /\ IF lots[t] = <<>>
           THEN /\ pc' = "raised"
                /\ UNCHANGED <<lots, lotBorn, remaining_quantity, pops>>
           ELSE LET lot == lots[t][1] IN
                /\ LotExhausted(lot[1], remaining_quantity)
                /\ lots' = [lots EXCEPT ![t] = PopLot(@)]
                /\ lotBorn' = [lotBorn EXCEPT ![t] = PopLot(@)]
                /\ remaining_quantity' = remaining_quantity - lot[1]
                /\ pops' = pops + 1
                /\ pc' = pc
    /\ UNCHANGED <<transactions_df, df, pos, lotKeys, holdings,
                   valueVars, metrics, xirrVars>>
    /\ UNCHANGED <<solverVars, sessionVars>>

\* lines 81-84, 88-91: the front lot is larger: reduce it in place.
SellReduceLot ==
    /\ pc = "sell"
    /\ LET t == Row(pos + 1).ticker IN
        /\ LoopCondition(remaining_quantity, lots[t])
        /\ lots[t] # <<>>
        /\ LET lot == lots[t][1] IN
            /\ ~LotExhausted(lot[1], remaining_quantity)
            /\ lots' = [lots EXCEPT ![t][1] = ReduceLot(lot, remaining_quantity)]
            /\ remaining_quantity' = 0
    /\ UNCHANGED <<pc, transactions_df, df, pos, lotKeys, lotBorn, pops,
                   holdings, valueVars, metrics, xirrVars>>
    /\ UNCHANGED <<solverVars, sessionVars>>

\* line 81: the while condition fails; the SELL row is finished.
EndSell ==
    /\ pc = "sell"
    /\ ~LoopCondition(remaining_quantity, lots[Row(pos + 1).ticker])
    /\ pc' = "row"
    /\ pos' = pos + 1
    /\ UNCHANGED <<transactions_df, df, lotKeys, lots, lotBorn,
                   remaining_quantity, pops, holdings, valueVars, metrics,
                   xirrVars>>
    /\ UNCHANGED <<solverVars, sessionVars>>

\* line 97: total_quantity = sum(qty for qty, _ in ticker_lots)
TotalQuantity(ticker_lots) ==
    SumSeq([k \in DOMAIN ticker_lots |-> ticker_lots[k][1]])

\* Faulty variant: the prices are summed without their quantities
TotalCostUnweighted(ticker_lots) ==
    SumSeq([k \in DOMAIN ticker_lots |-> ticker_lots[k][2]])

\* line 101: total_cost = sum(qty * price for qty, price in ticker_lots)
TotalCost(ticker_lots) ==
    SumSeq([k \in DOMAIN ticker_lots |-> ticker_lots[k][1] * ticker_lots[k][2]])

\* Faulty variant: >= for >
ReportedNonNegative(ticker_lots) == TotalQuantity(ticker_lots) >= 0

\* line 99: a ticker is reported only if total_quantity > 0
Reported(ticker_lots) == TotalQuantity(ticker_lots) > 0

\* lines 102-108: the holdings row of one ticker
HoldingRow(t, ticker_lots) ==
    [ticker |-> t,
     quantity |-> TotalQuantity(ticker_lots),
     avg_cost_basis |-> Frac(TotalCost(ticker_lots), TotalQuantity(ticker_lots))]

\* lines 94-108: for ticker, ticker_lots in lots.items(): ...
RECURSIVE BuildHoldings(_, _)
BuildHoldings(keys, ls) ==
    IF keys = <<>> THEN <<>>
    ELSE LET t == Head(keys)
             rest == BuildHoldings(Tail(keys), ls)
         IN IF Reported(ls[t]) THEN <<HoldingRow(t, ls[t])>> \o rest ELSE rest

\* lines 64, 93-110: the rows are exhausted; build and return the holdings.
EmitHoldings ==
    /\ pc = "row"
    /\ pos = Len(df)
    /\ holdings' = BuildHoldings(lotKeys, lots)
    /\ pc' = "holdings_done"
    /\ UNCHANGED <<transactions_df, fifoVars, valueVars, metrics, xirrVars>>
    /\ UNCHANGED <<solverVars, sessionVars>>

\* ----------------------------------------------- calculate_portfolio_value
\* get_current_prices: a map for some of the requested tickers (lines 19-38)
PriceMaps(tickers) == UNION {[D -> CurrentPrices] : D \in SUBSET tickers}

\* Faulty variant: a missing price is filled with 0
CurrentPriceZeroFilled(t, prices) ==
    IF t \in DOMAIN prices THEN R(prices[t]) ELSE R(0)

\* line 130: df['ticker'].map(prices_dict)
CurrentPrice(t, prices) == IF t \in DOMAIN prices THEN R(prices[t]) ELSE NaN

\* line 133
CurrentValue(h, prices) == FMul(R(h.quantity), CurrentPrice(h.ticker, prices))

\* line 134
UnrealizedPl(h, prices) ==
    FSub(CurrentValue(h, prices), FMul(R(h.quantity), h.avg_cost_basis))

\* line 135
UnrealizedPlPercent(h, prices) ==
    FMul(FDiv(UnrealizedPl(h, prices), FMul(R(h.quantity), h.avg_cost_basis)),
         R(100))

ValuedRow(h, prices) ==
    [ticker |-> h.ticker, quantity |-> h.quantity,
     avg_cost_basis |-> h.avg_cost_basis,
     current_price |-> CurrentPrice(h.ticker, prices),
     current_value |-> CurrentValue(h, prices),
     unrealized_pl |-> UnrealizedPl(h, prices),
     unrealized_pl_percent |-> UnrealizedPlPercent(h, prices)]

\* lines 123-137
CalculatePortfolioValue(holdings_df, prices) ==
    IF holdings_df = <<>> THEN <<>>
    ELSE [k \in DOMAIN holdings_df |-> ValuedRow(holdings_df[k], prices)]

\* Faulty variant: df = holdings_df, the value columns are set on the
\* caller's frame
HoldingsFrameAliased(holdings_df, valued) == valued

\* line 127: df = holdings_df.copy(); lines 130-135 set the value columns on
\* the copy, the caller's frame stays as it was
HoldingsFrameAfterValue(holdings_df, valued) == holdings_df

FifoLocalsGone ==
    /\ df' = <<>>
    /\ pos' = 0
    /\ lotKeys' = <<>>
    /\ lots' = [t \in Tickers |-> <<>>]
    /\ lotBorn' = [t \in Tickers |-> <<>>]
    /\ remaining_quantity' = 0
    /\ pops' = 0

\* portfolio_performance.py lines 28-31: no holdings, nothing is valued.
SkipValuation ==
    /\ pc = "holdings_done"
    /\ holdings = <<>>
    /\ prices_dict' = <<>>
    /\ holdings_with_value' = <<>>
    /\ pc' = "valued"
    /\ FifoLocalsGone
    /\ UNCHANGED <<transactions_df, holdings, metrics, xirrVars>>
    /\ UNCHANGED <<solverVars, sessionVars>>

\* portfolio_performance.py lines 31-38: fetch prices, value the holdings.
ValueHoldings ==
    /\ pc = "holdings_done"
    /\ holdings # <<>>
    /\ \E prices \in PriceMaps({holdings[k].ticker : k \in DOMAIN holdings}) :
        /\ prices_dict' = prices
        /\ holdings_with_value' = CalculatePortfolioValue(holdings, prices)
    /\ holdings' = HoldingsFrameAfterValue(holdings, holdings_with_value')
    /\ pc' = "valued"
    /\ FifoLocalsGone
    /\ UNCHANGED <<transactions_df, metrics, xirrVars>>
    /\ UNCHANGED <<solverVars, sessionVars>>

\* --------------------------------------------- calculate_portfolio_metrics
Notional(row) == row.quantity * row.price

\* (rows['quantity'] * rows['price']).sum() over the rows of one type
NotionalSum(rows, type) ==
    SumSeq([k \in DOMAIN rows |->
              IF rows[k].transaction_type = type THEN Notional(rows[k]) ELSE 0])

\* lines 163-165
TotalInvestment(rows) == IF rows = <<>> THEN R(0) ELSE R(NotionalSum(rows, "BUY"))

\* lines 163, 168-169
TotalSells(rows) == IF rows = <<>> THEN R(0) ELSE R(NotionalSum(rows, "SELL"))

\* Faulty variant: sum(skipna=False), a missing value makes the sum missing
SumWithNa(col) ==
    IF \E k \in DOMAIN col : IsNaN(col[k]) THEN NaN
    ELSE LET F[k \in 0..Len(col)] ==
                 IF k = 0 THEN R(0) ELSE FAdd(F[k - 1], col[k])
         IN F[Len(col)]

\* Series.sum(): missing values are skipped
RECURSIVE SumSkipNa(_)
SumSkipNa(col) ==
    IF col = <<>> THEN R(0)
    ELSE IF IsNaN(Head(col)) THEN SumSkipNa(Tail(col))
    ELSE FAdd(Head(col), SumSkipNa(Tail(col)))

\* lines 172-173
PortfolioCurrentValue(valued) ==
    IF valued = <<>> THEN R(0)
    ELSE SumSkipNa([k \in DOMAIN valued |-> valued[k].current_value])

\* line 176
TotalReturn(sells, value, investment) == FSub(FAdd(sells, value), investment)

\* lines 179-180
TotalReturnPercent(ret, investment) ==
    IF FPositive(investment) THEN FMul(FDiv(ret, investment), R(100)) ELSE R(0)

\* lines 150-180: the metrics dict when calculate_xirr is called.
ComputeMetrics ==
    /\ pc = "valued"
    /\ LET inv == TotalInvestment(transactions_df)
           sells == TotalSells(transactions_df)
           value == PortfolioCurrentValue(holdings_with_value)
           ret == TotalReturn(sells, value, inv)
       IN metrics' = [total_investment |-> inv, total_sells |-> sells,
                      current_value |-> value, total_return |-> ret,
                      total_return_percent |-> TotalReturnPercent(ret, inv)]
    /\ pc' = "xirr"
    /\ UNCHANGED <<transactions_df, fifoVars, holdings, valueVars, xirrVars>>
    /\ UNCHANGED <<solverVars, sessionVars>>

\* ------------------------------------------------------ calculate_xirr
\* lines 207-213: one signed amount per row
SignedAmount(row) ==
    IF row.transaction_type = "BUY" THEN R(-Notional(row)) ELSE R(Notional(row))

\* line 218: the terminal flow is added if current_value > 0
HasTerminalFlow(current_value) == FPositive(current_value)

\* lines 204-219
XirrCashFlows(rows, current_value) ==
    LET flows == [k \in DOMAIN rows |-> SignedAmount(rows[k])]
    IN IF HasTerminalFlow(current_value) THEN Append(flows, current_value)
       ELSE flows

\* lines 205-221
XirrDates(rows, current_value, now) ==
    LET ds == [k \in DOMAIN rows |-> rows[k].date]
    IN IF HasTerminalFlow(current_value) THEN Append(ds, now) ELSE ds

\* Faulty variant: < 1 for < 2
InsufficientBelowOne(flows) == Len(flows) < 1

\* line 225
Insufficient(flows) == Len(flows) < 2

\* lines 199-201: no transactions, no XIRR.
XirrNoTransactions ==
    /\ pc = "xirr"
    /\ Len(transactions_df) = 0
    /\ xirr' = "None"
    /\ pc' = "done"
    /\ UNCHANGED <<transactions_df, fifoVars, holdings, valueVars, metrics,
                   cash_flows, dates>>
    /\ UNCHANGED <<solverVars, sessionVars>>

\* lines 203-227: the cash flows are built; fewer than 2 gives None.
XirrInsufficient ==
    /\ pc = "xirr"
    /\ Len(transactions_df) # 0
    /\ \E now \in Nows :
        /\ cash_flows' = XirrCashFlows(transactions_df, metrics.current_value)
        /\ dates' = XirrDates(transactions_df, metrics.current_value, now)
    /\ Insufficient(cash_flows')
    /\ xirr' = "None"
    /\ pc' = "done"
    /\ UNCHANGED <<transactions_df, fifoVars, holdings, valueVars, metrics>>
    /\ UNCHANGED <<solverVars, sessionVars>>

\* lines 203-227: the cash flows are built; 2 or more go on to the solver.
XirrReady ==
    /\ pc = "xirr"
    /\ Len(transactions_df) # 0
    /\ \E now \in Nows :
        /\ cash_flows' = XirrCashFlows(transactions_df, metrics.current_value)
        /\ dates' = XirrDates(transactions_df, metrics.current_value, now)
    /\ ~Insufficient(cash_flows')
    /\ pc' = "xirr_ready"
    /\ UNCHANGED <<transactions_df, fifoVars, holdings, valueVars, metrics, xirr>>
    /\ UNCHANGED <<solverVars, sessionVars>>

Next ==
    \/ HoldingsEmptyLedger
    \/ HoldingsSort
    \/ ProcessBuy
    \/ BeginSell
    \/ SellPopLot
    \/ SellReduceLot
    \/ EndSell
    \/ EmitHoldings
    \/ SkipValuation
    \/ ValueHoldings
    \/ ComputeMetrics
    \/ XirrNoTransactions
    \/ XirrInsufficient
    \/ XirrReady

Spec == Init /\ [][Next]_vars

\* ======================================================================
\* calculate_xirr on its own: the ledger, the type of its dates and the
\* current value are the inputs; the solver stages are part of the run.
\* ======================================================================
\* manual entry stores datetime.date (st.date_input), CSV import stores
\* pandas Timestamp (pd.to_datetime)
DateTypes == {"date", "Timestamp"}

\* the current_value argument
CurrentValues == {R(0), R(300)}

\* rates a solver can come back with
Rates == {Frac(1, 4)}

InitXirr ==
    /\ \E n \in 0..MaxLen : transactions_df \in [1..n -> Transaction]
    /\ date_type \in DateTypes
    /\ \E cv \in CurrentValues :
          metrics = [MetricsDefaults EXCEPT !.current_value = cv]
    /\ pc = "xirr"
    /\ df = <<>>
    /\ pos = 0
    /\ lotKeys = <<>>
    /\ lots = [t \in Tickers |-> <<>>]
    /\ lotBorn = [t \in Tickers |-> <<>>]
    /\ remaining_quantity = 0
    /\ pops = 0
    /\ holdings = <<>>
    /\ prices_dict = <<>>
    /\ holdings_with_value = <<>>
    /\ cash_flows = <<>>
    /\ dates = <<>>
    /\ xirr = "unset"
    /\ SolverIdle
    /\ SessionIdle

\* lines 215, 220-221: the type of each element of dates
XirrDateTypes(rows, current_value, type) ==
    LET ts == [k \in DOMAIN rows |-> type]
    IN IF HasTerminalFlow(current_value) THEN Append(ts, "datetime") ELSE ts

\* a < b between date values: datetime.date against datetime.datetime (or
\* its subclass Timestamp) is a TypeError
Orderable(a, b) == a = b \/ {a, b} = {"Timestamp", "datetime"}

\* line 230: min(dates) compares the elements with one another
MinRaises(types) ==
    \E i, j \in DOMAIN types : ~Orderable(types[i], types[j])

\* line 230: min_date = min(dates)
MinDate(ds) == CHOOSE d \in Range(ds) : \A e \in Range(ds) : d <= e

\* line 231: days = [(date - min_date).days for date in dates]
DaysSince(ds) == [k \in DOMAIN ds |-> ds[k] - MinDate(ds)]

\* lines 229-233 are outside the try: a TypeError of min(dates) leaves
\* calculate_xirr, and calculate_portfolio_metrics with it (line 183).
XirrDateError ==
    /\ pc = "xirr_ready"
    /\ MinRaises(XirrDateTypes(transactions_df, metrics.current_value, date_type))
    /\ pc' = "raised"
    /\ UNCHANGED <<transactions_df, fifoVars, holdings, valueVars, metrics,
                   xirrVars, solverVars, sessionVars>>

\* lines 229-233: the day offsets are computed.
XirrDays ==
    /\ pc = "xirr_ready"
    /\ ~MinRaises(XirrDateTypes(transactions_df, metrics.current_value, date_type))
    /\ days' = DaysSince(dates)
    /\ pc' = "solve"
    /\ UNCHANGED <<transactions_df, fifoVars, holdings, valueVars, metrics,
                   xirrVars, xirr_value, date_type, stages, sessionVars>>

\* a solver call: which solver, with which arguments, and what came of it
Raised == [kind |-> "raise", value |-> NaN]
Returned(kind, value) == [kind |-> kind, value |-> value]
Call(solver, args, outcome) ==
    [solver |-> solver, args |-> args, kind |-> outcome.kind,
     value |-> outcome.value]

\* lines 237-241: with every day offset 0 each term is cf / x ** 0.0 = cf,
\* so xirr_equation is the constant sum(cash_flows)
XirrEquationConstant(ds) == \A k \in DOMAIN ds : ds[k] = 0

\* lines 238-241 at days all 0: result += cf, in order
FlowSum(flows) ==
    LET F[k \in 0..Len(flows)] ==
            IF k = 0 THEN R(0) ELSE FAdd(F[k - 1], flows[k])
    IN F[Len(flows)]

\* Faulty variant: x0 = 0.0
NewtonSeedZero == R(0)

\* line 244: x0=0.1
NewtonSeed == Frac(1, 10)

\* line 260: the bracket of brentq
BracketLow == Frac(-999, 1000)
BracketHigh == R(10)

\* scipy.optimize.newton without fprime (secant steps from x0): on a
\* constant function the two first values are equal and it raises
\* RuntimeError; otherwise it converges to some rate, returns nan or inf,
\* or raises after maxiter steps
NewtonOutcomes(flows, ds) ==
    IF XirrEquationConstant(ds) THEN {Raised}
    ELSE {Raised, Returned("nan", NaN), Returned("inf", NaN)}
         \cup {Returned("finite", r) : r \in Rates}

\* scipy.optimize.brentq on [a, b]: f(a) = 0 returns a at once; values of
\* one sign at both ends raise ValueError; otherwise a rate in the bracket,
\* or nan when the function values are nan
BrentqOutcomes(flows, ds, a, b) ==
    IF XirrEquationConstant(ds)
    THEN (IF FlowSum(flows) = R(0) THEN {Returned("finite", a)} ELSE {Raised})
    ELSE {Raised, Returned("nan", NaN)}
         \cup {Returned("finite", r) : r \in Rates}

\* lines 247, 261: xirr_value = result * 100
ToPercent(o) ==
    IF o.kind = "finite" THEN Returned("finite", FMul(o.value, R(100))) ELSE o

\* Faulty variant: only NaN is tested
InvalidNanOnly(o) == o.kind = "nan"

\* lines 250, 263: np.isnan(xirr_value) or np.isinf(xirr_value)
Invalid(o) == o.kind = "nan" \/ o.kind = "inf"

\* lines 250-255, 263-268: None for an invalid value, else the value
ReturnValue(o) ==
    /\ xirr' = IF Invalid(o) THEN "None" ELSE "value"
    /\ xirr_value' = IF Invalid(o) THEN NaN ELSE o.value

\* lines 235-255: newton returns; the result is checked and returned.
XirrNewtonReturns ==
    /\ pc = "solve"
    /\ \E o \in NewtonOutcomes(cash_flows, days) :
        /\ o.kind # "raise"
        /\ stages' = <<Call("newton", <<NewtonSeed>>, o)>>
        /\ ReturnValue(ToPercent(o))
    /\ pc' = "done"
    /\ UNCHANGED <<transactions_df, fifoVars, holdings, valueVars, metrics,
                   cash_flows, dates, date_type, days, sessionVars>>

\* lines 235-244, 256: newton raises; control passes to the except block.
XirrNewtonRaises ==
    /\ pc = "solve"
    /\ Raised \in NewtonOutcomes(cash_flows, days)
    /\ stages' = <<Call("newton", <<NewtonSeed>>, Raised)>>
    /\ pc' = "fallback"
    /\ UNCHANGED <<transactions_df, fifoVars, holdings, valueVars, metrics,
                   xirrVars, xirr_value, date_type, days, sessionVars>>

\* lines 258-268: brentq returns; the result is checked and returned.
XirrBrentqReturns ==
    /\ pc = "fallback"
    /\ \E o \in BrentqOutcomes(cash_flows, days, BracketLow, BracketHigh) :
        /\ o.kind # "raise"
        /\ stages' = Append(stages, Call("brentq", <<BracketLow, BracketHigh>>, o))
        /\ ReturnValue(ToPercent(o))
    /\ pc' = "done"
    /\ UNCHANGED <<transactions_df, fifoVars, holdings, valueVars, metrics,
                   cash_flows, dates, date_type, days, sessionVars>>

\* lines 258-260, 269-273: brentq raises too; None is returned.
XirrBrentqRaises ==
    /\ pc = "fallback"
    /\ Raised \in BrentqOutcomes(cash_flows, days, BracketLow, BracketHigh)
    /\ stages' = Append(stages, Call("brentq", <<BracketLow, BracketHigh>>, Raised))
    /\ xirr' = "None"
    /\ pc' = "done"
    /\ UNCHANGED <<transactions_df, fifoVars, holdings, valueVars, metrics,
                   cash_flows, dates, xirr_value, date_type, days, sessionVars>>

NextXirr ==
    \/ XirrNoTransactions
    \/ XirrInsufficient
    \/ XirrReady
    \/ XirrDateError
    \/ XirrDays
    \/ XirrNewtonReturns
    \/ XirrNewtonRaises
    \/ XirrBrentqReturns
    \/ XirrBrentqRaises

SpecXirr == InitXirr /\ [][NextXirr]_vars

\* ======================================================================
\* The session ledger st.session_state.transactions under the operations
\* of the Input Transactions tab.
\* ======================================================================
\* what the form can submit: the date is a datetime.date
ManualRows ==
    [ticker : {"A"}, date : Dates, transaction_type : {"BUY", "SELL"},
     quantity : {1}, price : {100}, date_type : {"date"}]

\* what process_uploaded_csv can return as a row: the date is a Timestamp
CsvRows ==
    [ticker : {"A"}, date : Dates, transaction_type : {"BUY", "SELL"},
     quantity : {1}, price : {100}, date_type : {"Timestamp"}]

InitSession ==
    /\ transactions = NoLedger
    /\ last_op = "none"
    /\ last_batch = <<>>
    /\ pc = "start"
    /\ transactions_df = <<>>
    /\ df = <<>>
    /\ pos = 0
    /\ lotKeys = <<>>
    /\ lots = [t \in Tickers |-> <<>>]
    /\ lotBorn = [t \in Tickers |-> <<>>]
    /\ remaining_quantity = 0
    /\ pops = 0
    /\ holdings = <<>>
    /\ prices_dict = <<>>
    /\ holdings_with_value = <<>>
    /\ metrics = MetricsDefaults
    /\ cash_flows = <<>>
    /\ dates = <<>>
    /\ xirr = "unset"
    /\ date_type = "Timestamp"
    /\ SolverIdle

\* the rendering pass is not part of the session operations
EngineIdle ==
    UNCHANGED <<pc, transactions_df, fifoVars, holdings, valueVars, metrics,
                xirrVars, solverVars>>

\* DataFrame.sort_values('date'): the rows in one of the orders it can give
SortedByDate(rows) ==
    {[k \in DOMAIN rows |-> rows[p[k]]] : p \in SortValuesByDate(rows)}

\* sorting compares the date values: a column that holds both Timestamp
\* and datetime.date is a TypeError on pandas 2, and is sorted on pandas 1
SortMayRaise(rows) ==
    \E i, j \in DOMAIN rows : rows[i].date_type # rows[j].date_type

\* Faulty variant: the result of drop_duplicates() is not used
DropDuplicatesSkipped(rows) == rows

\* DataFrame.drop_duplicates(): of rows equal in all fields the first stays
DropDuplicates(rows) ==
    LET F[k \in 0..Len(rows)] ==
            IF k = 0 THEN <<>>
            ELSE IF rows[k] \in Range(F[k - 1]) THEN F[k - 1]
                 ELSE Append(F[k - 1], rows[k])
    IN F[Len(rows)]

\* data_processing.py lines 113-122, input_transactions.py lines 136-137:
\* the first manual entry of a session is a ledger of one row.
ManualAddFirst ==
    /\ transactions.none
    /\ \E row \in ManualRows : transactions' = Ledger(<<row>>)
    /\ last_op' = "manual"
    /\ last_batch' = <<>>
    /\ EngineIdle

\* data_processing.py lines 113-125, input_transactions.py lines 138-141:
\* the new row is appended and the ledger sorted by date.
ManualAdd ==
    /\ ~transactions.none
    /\ Len(transactions.rows) < MaxRows
    /\ \E row \in ManualRows :
         \E sorted \in SortedByDate(Append(transactions.rows, row)) :
            transactions' = Ledger(sorted)
    /\ last_op' = "manual"
    /\ last_batch' = <<>>
    /\ EngineIdle

\* data_processing.py line 125: sort_values raises on a column of mixed
\* date types; the assignment of line 139 does not happen.
ManualAddRaises ==
    /\ ~transactions.none
    /\ Len(transactions.rows) < MaxRows
    /\ \E row \in ManualRows : SortMayRaise(Append(transactions.rows, row))
    /\ last_op' = "manual_error"
    /\ last_batch' = <<>>
    /\ UNCHANGED transactions
    /\ EngineIdle

\* process_uploaded_csv (lines 76-93): the rows of the file, sorted by date
UploadedBatches ==
    UNION {SortedByDate(file) :
             file \in UNION {[1..n -> CsvRows] : n \in 0..MaxBatch}}

\* input_transactions.py lines 99-101: 'Add to Portfolio' with no ledger
\* yet; the batch becomes the ledger.
CsvAddFirst ==
    /\ transactions.none
    /\ \E result \in UploadedBatches :
        /\ transactions' = Ledger(result)
        /\ last_batch' = result
    /\ last_op' = "csv"
    /\ EngineIdle

\* input_transactions.py lines 102-105: 'Add to Portfolio' onto a ledger;
\* concat, drop_duplicates, reset_index.
CsvAddMerge ==
    /\ ~transactions.none
    /\ \E result \in UploadedBatches :
        LET combined == DropDuplicates(transactions.rows \o result) IN
        /\ Len(combined) <= MaxRows
        /\ transactions' = Ledger(combined)
        /\ last_batch' = result
        /\ last_op' = IF last_op \in {"csv", "csv_again"} /\ result = last_batch
                       THEN "csv_again" ELSE "csv"
    /\ EngineIdle

\* input_transactions.py lines 34, 46-48: 'Clear All Transactions' is
\* offered for a ledger with rows.
ClearAll ==
    /\ ~transactions.none
    /\ transactions.rows # <<>>
    /\ transactions' = NoLedger
    /\ last_op' = "clear"
    /\ last_batch' = <<>>
    /\ EngineIdle

NextSession ==
    \/ ManualAddFirst
    \/ ManualAdd
    \/ ManualAddRaises
    \/ CsvAddFirst
    \/ CsvAddMerge
    \/ ClearAll

SpecSession == InitSession /\ [][NextSession]_vars

\* ======================================================================
\* Properties.  The operators below are written from the statements being
\* checked, not from the code: the queue discipline is read off the history
\* variable lotBorn, and inventories are recomputed from the sorted rows.
\* ======================================================================
FifoActive == pc \in {"row", "sell", "holdings_done"}

IsBuy(r, t) == r.ticker = t /\ r.transaction_type = "BUY"
IsSell(r, t) == r.ticker = t /\ r.transaction_type = "SELL"

\* Inventory of ticker t after the first n rows of df, by the accounting
\* rule alone: a BUY adds, a SELL takes what is there and no more.
RECURSIVE RefInventory(_, _)
RefInventory(t, n) ==
    IF n = 0 THEN 0
    ELSE LET r == Row(n)
             before == RefInventory(t, n - 1)
         IN IF IsBuy(r, t) THEN before + r.quantity
            ELSE IF IsSell(r, t)
                 THEN (IF r.quantity > before THEN 0 ELSE before - r.quantity)
                 ELSE before

RECURSIVE BoughtSum(_, _)
BoughtSum(t, n) ==
    IF n = 0 THEN 0
    ELSE BoughtSum(t, n - 1) + (IF IsBuy(Row(n), t) THEN Row(n).quantity ELSE 0)

\* What the SELL at row n is matched against: never more than the inventory.
MatchedAt(t, n) ==
    IF IsSell(Row(n), t)
    THEN (IF Row(n).quantity > RefInventory(t, n - 1)
          THEN RefInventory(t, n - 1) ELSE Row(n).quantity)
    ELSE 0

RECURSIVE MatchedSum(_, _)
MatchedSum(t, n) ==
    IF n = 0 THEN 0 ELSE MatchedSum(t, n - 1) + MatchedAt(t, n)

Oversell(t, n) == IsSell(Row(n), t) /\ Row(n).quantity > RefInventory(t, n - 1)

OpenQuantity(t) ==
    LET q == lots[t]
        F[k \in 0..Len(q)] == IF k = 0 THEN 0 ELSE F[k - 1] + q[k][1]
    IN F[Len(q)]

OpenCost(t) ==
    LET q == lots[t]
        F[k \in 0..Len(q)] == IF k = 0 THEN 0 ELSE F[k - 1] + q[k][1] * q[k][2]
    IN F[Len(q)]

HoldingRowsOf(t) == {k \in DOMAIN holdings : holdings[k].ticker = t}

HoldingQuantity(t) ==
    IF HoldingRowsOf(t) = {} THEN 0
    ELSE holdings[CHOOSE k \in HoldingRowsOf(t) : TRUE].quantity

OpenLots(t) ==
    {[born |-> lotBorn[t][k], quantity |-> lots[t][k][1], price |-> lots[t][k][2]] :
        k \in DOMAIN lots[t]}

OpenLotsNext(t) ==
    {[born |-> lotBorn'[t][k], quantity |-> lots'[t][k][1], price |-> lots'[t][k][2]] :
        k \in DOMAIN lots'[t]}

\* ---------------------------------------------------------------- C1
\* BUY q1, BUY q2, SELL s of one ticker with q1 < s < q1 + q2 (the shape of
\* BUY 10 @100, BUY 5 @200, SELL 12): one lot is left, q1 + q2 - s at the
\* second price.
C1_TwoBuysOneSell ==
    (/\ pc = "holdings_done"
     /\ Len(df) = 3
     /\ IsBuy(Row(1), "A") /\ IsBuy(Row(2), "A") /\ IsSell(Row(3), "A")
     /\ Row(1).quantity < Row(3).quantity
     /\ Row(3).quantity < Row(1).quantity + Row(2).quantity)
    => lots["A"] =
         << <<Row(1).quantity + Row(2).quantity - Row(3).quantity, Row(2).price>> >>

\* A SELL step reduces or removes a lot only if no lot of the same ticker
\* that was bought earlier is still open.
C1_OldestFirstStep ==
    pc = "sell" =>
        \A t \in Tickers :
            \A l \in OpenLots(t) \ OpenLotsNext(t) :
                \A m \in OpenLots(t) : m.born >= l.born

\* C1: every SELL consumes the open lots of its ticker strictly oldest
\* first, at every step of the processing; two buys followed by a sell that
\* exceeds the first leave exactly the remainder of the second lot.
C1_FifoOrder == [](C1_TwoBuysOneSell) /\ [][C1_OldestFirstStep]_vars

C1_Witness ==
    /\ pc = "holdings_done"
    /\ Len(df) = 3
    /\ IsBuy(Row(1), "A") /\ Row(1).quantity = 1 /\ Row(1).price = 100
    /\ IsBuy(Row(2), "A") /\ Row(2).quantity = 2 /\ Row(2).price = 200
    /\ IsSell(Row(3), "A") /\ Row(3).quantity = 2
    /\ lots["A"] = << <<1, 200>> >>

\* ---------------------------------------------------------------- C2
\* C2: conservation.  After each processed transaction, for every ticker,
\* the quantity bought minus the quantity sold that was actually matched
\* (an oversell remainder is not matched) equals the sum of the open lot
\* quantities; at the end it equals the quantity of the ticker's holding,
\* 0 when no holding is emitted.
C2_Conservation ==
    /\ pc \in {"row", "holdings_done"} =>
        \A t \in Tickers :
            BoughtSum(t, pos) - MatchedSum(t, pos) = OpenQuantity(t)
    /\ pc = "holdings_done" =>
        \A t \in Tickers :
            BoughtSum(t, pos) - MatchedSum(t, pos) = HoldingQuantity(t)

C2_Witness ==
    /\ pc = "holdings_done"
    /\ \E n \in 1..pos : Oversell("A", n) /\ MatchedAt("A", n) > 0
    /\ HoldingQuantity("A") > 0

\* ---------------------------------------------------------------- C3
C3_LotsPositive ==
    FifoActive =>
        /\ \A t \in Tickers :
            /\ Len(lotBorn[t]) = Len(lots[t])
            /\ \A k \in DOMAIN lots[t] :
                /\ lots[t][k][1] > 0
                /\ lotBorn[t][k] \in 1..Len(df)
                /\ IsBuy(Row(lotBorn[t][k]), t)
                /\ lots[t][k][2] = Row(lotBorn[t][k]).price
            /\ OpenQuantity(t) >= 0
        /\ \A k \in DOMAIN holdings : holdings[k].quantity >= 0

C3_SellCreatesNoLot ==
    (pc = "sell" \/ (pc = "row" /\ pc' = "sell")) =>
        \A t \in Tickers :
            /\ Len(lots'[t]) <= Len(lots[t])
            /\ Range(lotBorn'[t]) \subseteq Range(lotBorn[t])

\* C3: with positive quantities, after every step each open lot has a
\* quantity greater than 0 and the unit price of the BUY that created it,
\* so open quantities and holdings are never negative; processing a SELL
\* never adds a lot to any queue.
C3_NoNegativeLots == [](C3_LotsPositive) /\ [][C3_SellCreatesNoLot]_vars

C3_Witness ==
    /\ pc = "sell"
    /\ remaining_quantity = 0
    /\ \E t \in Tickers : \E k \in DOMAIN lots[t] :
          lots[t][k][1] < Row(lotBorn[t][k]).quantity

\* ---------------------------------------------------------------- C4
RowsOf(t, n) == {k \in 1..n : Row(k).ticker = t}

LastRowOf(t, n) == CHOOSE k \in RowsOf(t, n) : \A j \in RowsOf(t, n) : j <= k

\* C4: an oversell is not an error.  A SELL of more than the open inventory
\* (also of a ticker never bought) does not raise and leaves the ticker's
\* queue empty; the excess is dropped: the next BUY of the ticker stands in
\* the queue alone and whole; a ticker that was only sold has no holding.
C4_OversellDiscarded ==
    /\ pc # "raised"
    /\ (pc = "row" /\ pos > 0) =>
        \A t \in Tickers : Oversell(t, pos) => lots[t] = <<>>
    /\ (pc = "row" /\ pos > 1) =>
        \A t \in Tickers :
            (/\ IsBuy(Row(pos), t)
             /\ RowsOf(t, pos - 1) # {}
             /\ Oversell(t, LastRowOf(t, pos - 1)))
            => lots[t] = << <<Row(pos).quantity, Row(pos).price>> >>
    /\ pc = "holdings_done" =>
        \A t \in Tickers :
            (\A k \in 1..Len(df) : ~IsBuy(Row(k), t)) => HoldingRowsOf(t) = {}

C4_Witness ==
    /\ pc = "holdings_done"
    /\ Len(df) = 3
    /\ IsSell(Row(1), "A") /\ Row(1).quantity = 2
    /\ IsBuy(Row(2), "A") /\ Row(2).quantity = 1
    /\ IsSell(Row(3), "B")
    /\ HoldingQuantity("A") = 1
    /\ HoldingRowsOf("B") = {}

\* ---------------------------------------------------------------- C5
\* The ordering of the row labels by date, rows of one date in label
\* (input) order.
StableOrder(rows) ==
    CHOOSE p \in [1..Len(rows) -> 1..Len(rows)] :
        /\ Injective(p)
        /\ \A a, b \in 1..Len(rows) :
              a < b => \/ rows[p[a]].date < rows[p[b]].date
                       \/ /\ rows[p[a]].date = rows[p[b]].date
                          /\ p[a] < p[b]

\* C5: the rows are processed in ascending date order, and rows with the
\* same date in the order in which they stand in the input ledger: the
\* k-th row processed is the k-th row of the ledger ordered by date with
\* ties in input order.
C5_DateThenInputOrder ==
    FifoActive =>
        \A k \in DOMAIN df :
            Row(k) = transactions_df[StableOrder(transactions_df)[k]]

\* ---------------------------------------------------------------- C6
\* C6: exactly one holding for each ticker whose queue is non-empty after
\* the whole ledger, none for any other ticker, and no holding of
\* quantity 0.
C6_HoldingsAreOpenTickers ==
    pc = "holdings_done" =>
        /\ \A t \in Tickers :
            /\ lots[t] # <<>> => Cardinality(HoldingRowsOf(t)) = 1
            /\ lots[t] = <<>> => HoldingRowsOf(t) = {}
        /\ \A k \in DOMAIN holdings :
            holdings[k].ticker \in Tickers /\ holdings[k].quantity # 0

C6_Witness ==
    /\ pc = "holdings_done"
    /\ lotKeys = <<"A", "B">>
    /\ lots["A"] = <<>>
    /\ \E k \in DOMAIN df : IsBuy(Row(k), "A")
    /\ Len(holdings) = 1 /\ holdings[1].ticker = "B"

\* ---------------------------------------------------------------- C7
\* C7: a holding's quantity is the sum of the remaining lot quantities of
\* its ticker, and its avg_cost_basis is the sum of quantity * unit price
\* over the remaining lots divided by that quantity.
C7_AverageCostBasis ==
    pc = "holdings_done" =>
        \A k \in DOMAIN holdings :
            LET h == holdings[k] IN
            /\ h.quantity = OpenQuantity(h.ticker)
            /\ h.avg_cost_basis.den > 0
            /\ h.avg_cost_basis.num * OpenQuantity(h.ticker)
                  = OpenCost(h.ticker) * h.avg_cost_basis.den

C7_Witness ==
    /\ pc = "holdings_done"
    /\ \E k \in DOMAIN df : IsSell(Row(k), "A")
    /\ lots["A"] = << <<1, 200>>, <<2, 100>> >>
    /\ holdings[1] = [ticker |-> "A", quantity |-> 3,
                      avg_cost_basis |-> [num |-> 400, den |-> 3]]

\* ---------------------------------------------------------------- C8
Valued == pc \in {"valued", "xirr", "xirr_ready", "done"}

\* v is the value x / y of integers x and y > 0
IsQuotient(v, x, y) == v.den > 0 /\ v.num * y = x * v.den

C8_RowValued(v, h) ==
    LET q == h.quantity
        a == h.avg_cost_basis.num
        b == h.avg_cost_basis.den
        p == prices_dict[h.ticker]
    IN /\ IsQuotient(v.current_price, p, 1)
       /\ IsQuotient(v.current_value, q * p, 1)
       /\ IsQuotient(v.unrealized_pl, q * p * b - q * a, b)
       /\ IsQuotient(v.unrealized_pl_percent, 100 * (q * p * b - q * a), q * a)

C8_RowUndefined(v) ==
    /\ IsNaN(v.current_price)
    /\ IsNaN(v.current_value)
    /\ IsNaN(v.unrealized_pl)
    /\ IsNaN(v.unrealized_pl_percent)

\* C8: the valuation has one row per holding, in the same order; a row
\* whose ticker has a price carries current_value = quantity * price,
\* unrealized_pl = current_value - quantity * avg_cost_basis and
\* unrealized_pl_percent = unrealized_pl / (quantity * avg_cost_basis) * 100;
\* a row whose ticker has no price carries four undefined values, whatever
\* the prices of the other tickers.
C8_Valuation ==
    Valued =>
        /\ Len(holdings_with_value) = Len(holdings)
        /\ \A k \in DOMAIN holdings :
            LET v == holdings_with_value[k]
                h == holdings[k]
            IN /\ v.ticker = h.ticker
               /\ v.quantity = h.quantity
               /\ v.avg_cost_basis = h.avg_cost_basis
               /\ IF h.ticker \in DOMAIN prices_dict
                  THEN C8_RowValued(v, h) ELSE C8_RowUndefined(v)

C8_Witness ==
    /\ pc = "valued"
    /\ Len(holdings) = 2
    /\ holdings[1] = [ticker |-> "A", quantity |-> 2,
                      avg_cost_basis |-> [num |-> 100, den |-> 1]]
    /\ DOMAIN prices_dict = {"A"} /\ prices_dict["A"] = 150
    /\ holdings_with_value[1].current_value = [num |-> 300, den |-> 1]
    /\ holdings_with_value[1].unrealized_pl = [num |-> 100, den |-> 1]
    /\ holdings_with_value[1].unrealized_pl_percent = [num |-> 50, den |-> 1]
    /\ IsNaN(holdings_with_value[2].current_value)

\* ---------------------------------------------------------------- C9
MetricsComputed == pc \in {"xirr", "xirr_ready", "done"}

LedgerNotional(type) ==
    LET rows == transactions_df
        F[k \in 0..Len(rows)] ==
            IF k = 0 THEN 0
            ELSE F[k - 1] + (IF rows[k].transaction_type = type
                             THEN rows[k].quantity * rows[k].price ELSE 0)
    IN F[Len(rows)]

PricedValue ==
    LET F[k \in 0..Len(holdings)] ==
            IF k = 0 THEN 0
            ELSE F[k - 1] + (IF holdings[k].ticker \in DOMAIN prices_dict
                             THEN holdings[k].quantity * prices_dict[holdings[k].ticker]
                             ELSE 0)
    IN F[Len(holdings)]

\* C9: total_investment and total_sells are the BUY and SELL notionals of
\* the ledger, current_value is the sum of current_value over the rows that
\* have a price, total_return = total_sells + current_value -
\* total_investment, and total_return_percent = total_return /
\* total_investment * 100 if total_investment > 0 and exactly 0 otherwise.
C9_Metrics ==
    MetricsComputed =>
        LET inv == LedgerNotional("BUY")
            sells == LedgerNotional("SELL")
            ret == sells + PricedValue - inv
        IN /\ IsQuotient(metrics.total_investment, inv, 1)
           /\ IsQuotient(metrics.total_sells, sells, 1)
           /\ IsQuotient(metrics.current_value, PricedValue, 1)
           /\ IsQuotient(metrics.total_return, ret, 1)
           /\ IF inv > 0
              THEN IsQuotient(metrics.total_return_percent, 100 * ret, inv)
              ELSE metrics.total_return_percent = [num |-> 0, den |-> 1]

C9_Witness ==
    /\ MetricsComputed
    /\ LedgerNotional("BUY") > 0 /\ LedgerNotional("SELL") > 0
    /\ \E k \in DOMAIN holdings_with_value :
          IsNaN(holdings_with_value[k].current_value)
    /\ PricedValue > 0
    /\ metrics.total_return_percent.num # 0

\* --------------------------------------------------------------- C10
\* C10: one signed cash flow per ledger row (BUY negative, SELL positive)
\* dated on the row's date, plus one flow of +current_value dated now if
\* and only if current_value > 0; with fewer than 2 cash flows (also with
\* an empty ledger) the result is None and the solver stage is not entered.
C10_CashFlows ==
    /\ (pc \in {"xirr_ready", "done"} /\ Len(transactions_df) > 0) =>
        LET n == Len(transactions_df)
            terminal == metrics.current_value.den > 0
                        /\ metrics.current_value.num > 0
            m == IF terminal THEN n + 1 ELSE n
        IN /\ Len(cash_flows) = m /\ Len(dates) = m
           /\ \A k \in 1..n :
                /\ cash_flows[k] =
                     [num |-> (IF transactions_df[k].transaction_type = "BUY"
                               THEN -1 ELSE 1)
                              * transactions_df[k].quantity * transactions_df[k].price,
                      den |-> 1]
                /\ dates[k] = transactions_df[k].date
           /\ terminal => cash_flows[m] = metrics.current_value /\ dates[m] \in Nows
           /\ m < 2 => pc = "done" /\ xirr = "None"
           /\ m >= 2 => pc = "xirr_ready" /\ xirr = "unset"
    /\ (pc \in {"xirr_ready", "done"} /\ Len(transactions_df) = 0) =>
        pc = "done" /\ xirr = "None" /\ cash_flows = <<>>

C10_Witness ==
    /\ pc = "done"
    /\ Len(transactions_df) = 1
    /\ transactions_df[1].transaction_type = "BUY"
    /\ holdings # <<>>
    /\ DOMAIN prices_dict = {}
    /\ Len(cash_flows) = 1
    /\ xirr = "None"

\* BUY rows among the rows of df processed so far: the lots created so far
BuysProcessed ==
    Cardinality({k \in 1..pos : Row(k).transaction_type = "BUY"})

\* the removals so far are no more than the lots created so far
C17_PopsWithinBuys == FifoActive => pops <= BuysProcessed

\* One pass of the SELL loop.  It runs only while something remains to be
\* matched and leaves strictly less, never below zero: the loop terminates.
\* A pass that removes a lot removes exactly the front one; a pass that does
\* not is the in-place reduction: the front lot survives with a smaller,
\* positive quantity and its price, the lots behind it are untouched, and
\* nothing remains to be matched, so no pass follows it.
C17_LoopStep ==
    (pc = "sell" /\ pc' = "sell") =>
        LET t == Row(pos + 1).ticker IN
        /\ remaining_quantity > 0
        /\ 0 <= remaining_quantity'
        /\ remaining_quantity' < remaining_quantity
        /\ lots[t] # <<>>
        /\ \A u \in Tickers \ {t} : lots'[u] = lots[u]
        /\ pops' \in {pops, pops + 1}
        /\ (pops' = pops + 1) => lots'[t] = Tail(lots[t])
        /\ (pops' = pops) =>
              /\ Len(lots'[t]) = Len(lots[t])
              /\ Tail(lots'[t]) = Tail(lots[t])
              /\ lots'[t][1][1] = lots[t][1][1] - remaining_quantity
              /\ lots'[t][1][1] > 0
              /\ lots'[t][1][2] = lots[t][1][2]
              /\ remaining_quantity' = 0

\* C17: the SELL matching loop always terminates (every pass strictly lowers
\* the quantity still to match, which never goes below zero); over a whole
\* ledger the number of lot removals never exceeds the number of BUY
\* transactions processed so far; each SELL performs at most one in-place
\* partial reduction, on the front lot, as its last step.
C17_BoundedMatching == [](C17_PopsWithinBuys) /\ [][C17_LoopStep]_vars

\* a SELL that removed one lot and then reduced the next one in place
C17_Witness ==
    /\ pc = "sell"
    /\ pops >= 1
    /\ remaining_quantity = 0
    /\ LET t == Row(pos + 1).ticker IN
        /\ lots[t] # <<>>
        /\ lots[t][1][1] < Row(lotBorn[t][1]).quantity

\* ---------------------------------------------------------------- C16
\* No step of the three functions changes the caller's ledger; once the
\* holdings table is returned no later step changes it, and once the valued
\* table is returned no later step changes it.
C16_InputsKept ==
    /\ transactions_df' = transactions_df
    /\ pc \in {"holdings_done", "valued", "xirr"} => holdings' = holdings
    /\ pc \in {"valued", "xirr"} => holdings_with_value' = holdings_with_value

\* Called again on the inputs as they stand after the call, the valuation
\* and the metrics give what the first call gave.
C16_SameAgain ==
    /\ (Valued /\ holdings # <<>>) =>
          CalculatePortfolioValue(holdings, prices_dict) = holdings_with_value
    /\ MetricsComputed =>
          LET inv == TotalInvestment(transactions_df)
              value == PortfolioCurrentValue(holdings_with_value)
              ret == TotalReturn(TotalSells(transactions_df), value, inv)
          IN /\ metrics.total_investment = inv
             /\ metrics.current_value = value
             /\ metrics.total_return = ret
             /\ metrics.total_return_percent = TotalReturnPercent(ret, inv)

SolverReturned == pc = "done" /\ days # <<>>

\* a hundred times the rate r
IsPercentOf(p, r) ==
    /\ p.den > 0
    /\ r.den > 0
    /\ p.num * r.den = 100 * r.num * p.den

\* C11: the solver is a two-stage strategy.  The primary solver (Newton,
\* seed 0.10) is always the first call; the fallback bracketing solver over
\* (-0.999, 10.0) is called if and only if the primary call raised; a NaN or
\* infinite rate from either stage gives null; a finite rate r from the
\* stage that succeeded is returned as r * 100; null is returned when both
\* stages fail.
C11_TwoStage ==
    /\ Len(stages) <= 2
    /\ stages # <<>> =>
          /\ stages[1].solver = "newton"
          /\ stages[1].args = <<[num |-> 1, den |-> 10]>>
    /\ Len(stages) = 2 =>
          /\ stages[2].solver = "brentq"
          /\ stages[2].args = <<[num |-> -999, den |-> 1000], [num |-> 10, den |-> 1]>>
          /\ stages[1].kind = "raise"
    /\ pc = "solve" => stages = <<>>
    /\ pc = "fallback" => Len(stages) = 1 /\ stages[1].kind = "raise"
    /\ SolverReturned =>
          /\ stages # <<>>
          /\ (stages[1].kind = "raise") <=> (Len(stages) = 2)
          /\ LET last == stages[Len(stages)] IN
              /\ last.kind \in {"nan", "inf", "raise"} => xirr = "None"
              /\ last.kind = "finite" =>
                    /\ xirr = "value"
                    /\ IsPercentOf(xirr_value, last.value)

\* the primary stage raised and the fallback found a rate
C11_Witness ==
    /\ SolverReturned
    /\ Len(stages) = 2
    /\ stages[2].kind = "finite"
    /\ xirr = "value"
    /\ xirr_value = R(25)

\* ---------------------------------------------------------------- C12
\* C12: for every ledger the input operations can produce (manual entries
\* carry datetime.date, CSV rows carry Timestamp) and every current value,
\* calculate_xirr never raises: an XIRR that cannot be determined, the date
\* arithmetic against the terminal 'now' flow included, is reported as
\* null, and every non-null xirr is a finite number.
C12_NeverRaises ==
    /\ pc # "raised"
    /\ pc = "done" =>
          \/ xirr = "None"
          \/ xirr = "value" /\ ~IsNaN(xirr_value)

\* ---------------------------------------------------------------- C13
\* C13: for at least 2 cash flows that all fall on the same day (every day
\* offset is 0), calculate_xirr calls the fallback solver and returns null,
\* whatever the sum of the flows is, a sum of exactly 0 included.
C13_SameDayNull ==
    (/\ SolverReturned
     /\ Len(cash_flows) >= 2
     /\ \A k \in DOMAIN days : days[k] = 0)
    => /\ \E k \in DOMAIN stages : stages[k].solver = "brentq"
       /\ xirr = "None"

\* ---------------------------------------------------------------- C14
SessionSorted ==
    \A i, j \in DOMAIN transactions.rows :
        i < j => transactions.rows[i].date <= transactions.rows[j].date

\* rows in date order, rows of one date in the order they have in rows
StableByDate(rows) ==
    LET p == CHOOSE q \in SortValuesByDate(rows) :
                 \A a, b \in DOMAIN rows :
                     (a < b /\ rows[q[a]].date = rows[q[b]].date) => q[a] < q[b]
    IN [k \in DOMAIN rows |-> rows[p[k]]]

\* the same, of the first occurrences only
FirstOccurrences(rows) ==
    LET keep == {k \in DOMAIN rows : \A j \in 1..(k - 1) : rows[j] # rows[k]}
        F[k \in 0..Len(rows)] ==
            IF k = 0 THEN <<>>
            ELSE IF k \in keep THEN Append(F[k - 1], rows[k]) ELSE F[k - 1]
    IN F[Len(rows)]

\* An add puts the arriving rows behind the rows of the same date that are
\* already there (whether or not rows seen before are taken again).
C14_ArrivalOrder ==
    /\ (last_op' = "manual" /\ ~transactions.none) =>
          \E row \in ManualRows :
              transactions'.rows = StableByDate(Append(transactions.rows, row))
    /\ (last_op' \in {"csv", "csv_again"} /\ ~transactions.none) =>
          \/ transactions'.rows = StableByDate(transactions.rows \o last_batch')
          \/ transactions'.rows =
                 StableByDate(FirstOccurrences(transactions.rows \o last_batch'))

\* C14: after any sequence of ledger-changing operations (manual add, CSV
\* add into an empty or a non-empty ledger, clear) the session ledger is
\* sorted by date ascending, with same-date transactions in arrival order.
C14_LedgerSorted == [](SessionSorted) /\ [][C14_ArrivalOrder]_vars

\* ---------------------------------------------------------------- C15
Occurrences(rows, x) == Cardinality({k \in DOMAIN rows : rows[k] = x})

C15_AddKeeps ==
    last_op' \in {"manual", "csv", "csv_again"} =>
        /\ \A x \in Range(transactions.rows) :
              Occurrences(transactions'.rows, x) >= Occurrences(transactions.rows, x)
        /\ Len(transactions'.rows) >= Len(transactions.rows)

\* C15: the ledger is append-only under the add operations: after a manual
\* add or a CSV add every transaction that was in the ledger is still in it
\* with at least the same multiplicity, and the length never decreases.
C15_AppendOnly == [][C15_AddKeeps]_vars

\* ---------------------------------------------------------------- C18
NoTwoIdentical(rows) ==
    \A i, j \in DOMAIN rows : i # j => rows[i] # rows[j]

\* the same batch is added a second time, straight after the first
SameBatchAgain ==
    /\ last_op \in {"csv", "csv_again"}
    /\ last_op' = "csv_again"
    /\ last_batch' = last_batch

\* C18 as stated: from any session ledger state, no ledger yet included,
\* adding the same uploaded batch twice leaves the ledger with the same
\* transactions as adding it once, and after any CSV add the ledger holds no
\* two transactions that match in all fields.
C18_Idempotent ==
    /\ [](last_op \in {"csv", "csv_again"} => NoTwoIdentical(transactions.rows))
    /\ [][SameBatchAgain => transactions' = transactions]_vars

C18_AddOntoLedger ==
    (last_op' \in {"csv", "csv_again"} /\ ~transactions.none) =>
        NoTwoIdentical(transactions'.rows)

C18_AddIntoEmptySession ==
    (last_op' = "csv" /\ transactions.none) => transactions'.rows = last_batch'

C18_SecondAdd ==
    SameBatchAgain =>
        /\ Range(transactions'.rows) = Range(transactions.rows)
        /\ NoTwoIdentical(transactions.rows) => transactions' = transactions

\* C18, amended: adding the same uploaded batch twice leaves the ledger with
\* the same distinct transactions as adding it once, and the very same
\* ledger unless the first add put a batch with repeated rows into a session
\* without a ledger; after an add onto an existing ledger no two
\* transactions match in all fields, while the first add of a session
\* stores the batch as uploaded, repeated rows included.
C18_IdempotentOnLedger ==
    [][C18_AddOntoLedger /\ C18_AddIntoEmptySession /\ C18_SecondAdd]_vars

\* a batch was added twice onto a ledger that held another row before
C18_Witness ==
    /\ last_op = "csv_again"
    /\ last_batch # <<>>
    /\ \E k \in DOMAIN transactions.rows :
          transactions.rows[k] \notin Range(last_batch)
====
